---------------------------- MODULE Spec2Model ----------------------------
(***************************************************************************)
(* ical-filter: the filter predicate engine (src/src/filter.rs) and the    *)
(* timestamp normalisation, event extraction, calendar pipeline, request   *)
(* handling and calendar rendering of src/src/main.rs.                      *)
(*                                                                         *)
(* Text the code inspects character by character (filter specs, summaries, *)
(* timestamp values) is a sequence of one-character strings.  Names the    *)
(* code only compares as a whole (property names, parameter names, zone    *)
(* identifiers, uids) are strings.  Option<T> is a sequence of length 0    *)
(* (None) or 1 (Some).                                                      *)
(***************************************************************************)
EXTENDS Integers, Sequences, FiniteSets, TLC

None == <<>>
Some(x) == <<x>>
IsSome(o) == Len(o) = 1

(***************************************************************************)
(* Bounds of the model.                                                    *)
(***************************************************************************)
MaxContent == 2      \* length of a filter spec's content
MaxCand == 2         \* length of a candidate string
MaxParams == 2       \* number of params of one property
MaxProps == 4        \* number of properties of one event
MaxFilters == 2      \* number of filters of one request
MaxFeedSize == 3     \* calendars, error blocks and events of one feed
MaxIcal == 2         \* events converted into one calendar document

(***************************************************************************)
(* Strings.                                                                *)
(***************************************************************************)
RECURSIVE SeqsUpTo(_, _)
SeqsUpTo(S, n) ==
  IF n = 0 THEN {<<>>}
  ELSE LET shorter == SeqsUpTo(S, n - 1)
       IN  shorter \cup {Append(s, x) : s \in shorter, x \in S}

StartsWith(s, pat) ==
  Len(pat) <= Len(s) /\ SubSeq(s, 1, Len(pat)) = pat

EndsWith(s, pat) ==
  Len(pat) <= Len(s) /\ SubSeq(s, Len(s) - Len(pat) + 1, Len(s)) = pat

Contains(s, pat) ==
  \E i \in 0..(Len(s) - Len(pat)) : SubSeq(s, i + 1, i + Len(pat)) = pat

\* str::find(':'): the index of the first occurrence, 0 when there is none.
Find(s, c) ==
  IF \E i \in 1..Len(s) : s[i] = c
  THEN CHOOSE i \in 1..Len(s) : s[i] = c /\ \A j \in 1..(i - 1) : s[j] # c
  ELSE 0

(***************************************************************************)
(* The regex crate, restricted to patterns over literals, "." (any         *)
(* character) and "(" (which, never closed in this alphabet, is a syntax   *)
(* error).  is_match is an unanchored search.                              *)
(***************************************************************************)
Regex_new_ok(pat) == \A i \in 1..Len(pat) : pat[i] # "("

Regex_is_match(pat, s) ==
  \E i \in 0..(Len(s) - Len(pat)) :
    \A j \in 1..Len(pat) : pat[j] = "." \/ pat[j] = s[i + j]

(***************************************************************************)
(* filter.rs                                                               *)
(***************************************************************************)
OpEquals == <<"e", "q", "u", "a", "l", "s">>
OpStartsWith == <<"s", "t", "a", "r", "t", "s", "W", "i", "t", "h">>
OpEndsWith == <<"e", "n", "d", "s", "W", "i", "t", "h">>
OpContains == <<"c", "o", "n", "t", "a", "i", "n", "s">>
OpTrue == <<"t", "r", "u", "e">>
OpRegex == <<"r", "e", "g", "e", "x">>

FilterOk(invert, op, pat) ==
  [ok |-> TRUE, invert |-> invert, op |-> op, pat |-> pat, err |-> ""]
FilterErr(kind) ==
  [ok |-> FALSE, invert |-> FALSE, op |-> "", pat |-> <<>>, err |-> kind]

\* FilterOperator::parse: the operator and its content, or an error kind.
FilterOperator_parse(s, content) ==
  CASE s = OpEquals -> [ok |-> TRUE, op |-> "Equals", pat |-> content, err |-> ""]
    [] s = OpStartsWith -> [ok |-> TRUE, op |-> "StartsWith", pat |-> content, err |-> ""]
    [] s = OpEndsWith -> [ok |-> TRUE, op |-> "EndsWith", pat |-> content, err |-> ""]
    [] s = OpContains -> [ok |-> TRUE, op |-> "Contains", pat |-> content, err |-> ""]
    [] s = OpTrue -> [ok |-> TRUE, op |-> "True", pat |-> <<>>, err |-> ""]
    [] s = OpRegex ->
         IF Regex_new_ok(content)
         THEN [ok |-> TRUE, op |-> "Regex", pat |-> content, err |-> ""]
         ELSE [ok |-> FALSE, op |-> "", pat |-> <<>>, err |-> "RegexError"]
    [] OTHER -> [ok |-> FALSE, op |-> "", pat |-> <<>>, err |-> "OperatorParse"]

FilterOperator_matches(op, pat, s) ==
  CASE op = "Equals" -> s = pat
    [] op = "StartsWith" -> StartsWith(s, pat)
    [] op = "EndsWith" -> EndsWith(s, pat)
    [] op = "Contains" -> Contains(s, pat)
    [] op = "True" -> TRUE
    [] op = "Regex" -> Regex_is_match(pat, s)

\* A parse whose unknown operators fall through to the always-true filter.
Filter_parse_lenient(spec) ==
  LET invert == Len(spec) > 0 /\ spec[1] = "!"
      s == IF invert THEN Tail(spec) ELSE spec
      colon == Find(s, ":")
  IN  IF colon = 0 THEN FilterErr("MissingColon")
      ELSE LET o == FilterOperator_parse(SubSeq(s, 1, colon - 1),
                                         SubSeq(s, colon + 1, Len(s)))
           IN  IF o.ok THEN FilterOk(invert, o.op, o.pat)
               ELSE FilterOk(invert, "True", <<>>)

Filter_parse(spec) ==
  LET invert == Len(spec) > 0 /\ spec[1] = "!"
      s == IF invert THEN Tail(spec) ELSE spec
      colon == Find(s, ":")
  IN  IF colon = 0 THEN FilterErr("MissingColon")
      ELSE LET o == FilterOperator_parse(SubSeq(s, 1, colon - 1),
                                         SubSeq(s, colon + 1, Len(s)))
           IN  IF o.ok THEN FilterOk(invert, o.op, o.pat) ELSE FilterErr(o.err)

\* A matcher that forgets the inversion.
Filter_matches_noinvert(f, s) == FilterOperator_matches(f.op, f.pat, s)

Filter_matches(f, s) ==
  LET result == FilterOperator_matches(f.op, f.pat, s)
  IN  IF f.invert THEN ~result ELSE result

(***************************************************************************)
(* chrono: parsing with a strftime pattern and formatting.  A numeric item *)
(* takes between one and `width` digits, greedily; a literal must match;   *)
(* input left over is an error.  The values of the model hold no sign and  *)
(* no white space, and no second of 60 (a leap second).                    *)
(***************************************************************************)
Digits == {"0", "1", "2", "3", "4", "5", "6", "7", "8", "9"}
DigitChars == <<"0", "1", "2", "3", "4", "5", "6", "7", "8", "9">>
DigitVal(c) == (CHOOSE i \in 1..10 : DigitChars[i] = c) - 1

Num(field, width) == [kind |-> "num", field |-> field, width |-> width]
Lit(c) == [kind |-> "lit", field |-> c, width |-> 0]

\* "%Y%m%dT%H%M%S" (main.rs:85) and "%Y%m%dT%H%M%SZ" (main.rs:89, main.rs:29)
FmtLocal ==
  <<Num("Y", 4), Num("m", 2), Num("d", 2), Lit("T"),
    Num("H", 2), Num("M", 2), Num("S", 2)>>
FmtZulu == Append(FmtLocal, Lit("Z"))

RECURSIVE NumLen(_, _, _)
NumLen(s, pos, width) ==
  IF width = 0 \/ pos > Len(s) THEN 0
  ELSE IF s[pos] \notin Digits THEN 0
  ELSE 1 + NumLen(s, pos + 1, width - 1)

RECURSIVE NumVal(_, _, _)
NumVal(s, pos, n) ==
  IF n = 0 THEN 0
  ELSE NumVal(s, pos, n - 1) * 10 + DigitVal(s[pos + n - 1])

NoFields == [f \in {"Y", "m", "d", "H", "M", "S"} |-> 0]

RECURSIVE ParseItems(_, _, _, _)
ParseItems(s, pos, fmt, acc) ==
  IF fmt = <<>>
  THEN [ok |-> pos > Len(s), f |-> acc]
  ELSE LET it == Head(fmt)
       IN  IF it.kind = "lit"
           THEN IF pos <= Len(s) /\ s[pos] = it.field
                THEN ParseItems(s, pos + 1, Tail(fmt), acc)
                ELSE [ok |-> FALSE, f |-> acc]
           ELSE LET n == NumLen(s, pos, it.width)
                IN  IF n = 0 THEN [ok |-> FALSE, f |-> acc]
                    ELSE ParseItems(s, pos + n, Tail(fmt),
                                    [acc EXCEPT ![it.field] = NumVal(s, pos, n)])

IsLeap(y) == (y % 4 = 0 /\ y % 100 # 0) \/ y % 400 = 0

DaysInMonth(y, m) ==
  CASE m \in {1, 3, 5, 7, 8, 10, 12} -> 31
    [] m \in {4, 6, 9, 11} -> 30
    [] OTHER -> IF IsLeap(y) THEN 29 ELSE 28

ValidFields(f) ==
  /\ f["m"] \in 1..12
  /\ f["d"] >= 1 /\ f["d"] <= DaysInMonth(f["Y"], f["m"])
  /\ f["H"] <= 23 /\ f["M"] <= 59 /\ f["S"] <= 59

\* Days between 1970-01-01 and the civil date y-m-d.
DaysFromCivil(y, m, d) ==
  LET yy == IF m <= 2 THEN y - 1 ELSE y
      era == yy \div 400
      yoe == yy - era * 400
      mp == IF m > 2 THEN m - 3 ELSE m + 9
      doy == (153 * mp + 2) \div 5 + d - 1
      doe == yoe * 365 + yoe \div 4 - yoe \div 100 + doy
  IN  era * 146097 + doe - 719468

\* The civil date of a day number: <<y, m, d>>.
CivilFromDays(z) ==
  LET zz == z + 719468
      era == zz \div 146097
      doe == zz - era * 146097
      yoe == (doe - doe \div 1460 + doe \div 36524 - doe \div 146096) \div 365
      doy == doe - (365 * yoe + yoe \div 4 - yoe \div 100)
      mp == (5 * doy + 2) \div 153
      d == doy - (153 * mp + 2) \div 5 + 1
      m == IF mp < 10 THEN mp + 3 ELSE mp - 9
      y == yoe + era * 400
  IN  <<IF m <= 2 THEN y + 1 ELSE y, m, d>>

\* Seconds since the epoch of the naive date-time the fields name.
LocalSeconds(f) ==
  DaysFromCivil(f["Y"], f["m"], f["d"]) * 86400
    + f["H"] * 3600 + f["M"] * 60 + f["S"]

ROk(v) == [ok |-> TRUE, v |-> v]
RErr == [ok |-> FALSE, v |-> 0]

\* TimeZone::datetime_from_str: the UTC instant of `s` read with pattern
\* `fmt` as a local time `offset` seconds east of UTC.
datetime_from_str(offset, s, fmt) ==
  LET p == ParseItems(s, 1, fmt, NoFields)
  IN  IF p.ok /\ ValidFields(p.f) THEN ROk(LocalSeconds(p.f) - offset) ELSE RErr

RECURSIVE Pad(_, _)
Pad(n, width) ==
  IF width = 0 THEN <<>>
  ELSE Append(Pad(n \div 10, width - 1), DigitChars[(n % 10) + 1])

\* An instant rendered as YYYYMMDDTHHMMSSZ (years 0..9999).
instant_to_icalstr(t) ==
  LET days == t \div 86400
      secs == t % 86400
      ymd == CivilFromDays(days)
  IN  Pad(ymd[1], 4) \o Pad(ymd[2], 2) \o Pad(ymd[3], 2) \o <<"T">>
        \o Pad(secs \div 3600, 2) \o Pad((secs % 3600) \div 60, 2)
        \o Pad(secs % 60, 2) \o <<"Z">>

(***************************************************************************)
(* chrono_tz: the named zones the model knows, each with its offset from   *)
(* UTC in seconds in January 1970 (the dates of the model's values).       *)
(***************************************************************************)
KnownZones == {"UTC", "America/New_York", "Europe/Amsterdam"}

TzOffset(zone) ==
  CASE zone = "UTC" -> 0
    [] zone = "America/New_York" -> -18000
    [] zone = "Europe/Amsterdam" -> 3600

Tz_from_str_ok(name) == name \in KnownZones

(***************************************************************************)
(* main.rs, compute_events: one property of one event.                     *)
(***************************************************************************)
Param(name, values) == [name |-> name, values |-> values]
Property(name, value, params) ==
  [name |-> name, value |-> value, params |-> params]

\* lines 71-81: the zone of a property, UTC unless a param names one.
RECURSIVE TzOfParams(_, _)
TzOfParams(params, tz) ==
  IF params = <<>> THEN tz
  ELSE LET p == Head(params)
       IN  IF p.name = "TZID" /\ Len(p.values) = 1 /\ Tz_from_str_ok(p.values[1])
           THEN TzOfParams(Tail(params), p.values[1])
           ELSE TzOfParams(Tail(params), tz)

TzOf(params) == IF IsSome(params) THEN TzOfParams(params[1], "UTC") ELSE "UTC"

\* A normaliser that fails on a zone identifier it cannot resolve.
datetime_for_str_strict(params, s) ==
  IF IsSome(params) /\ \E i \in 1..Len(params[1]) :
       /\ params[1][i].name = "TZID"
       /\ Len(params[1][i].values) = 1
       /\ ~Tz_from_str_ok(params[1][i].values[1])
  THEN RErr
  ELSE LET dt == datetime_from_str(TzOffset(TzOf(params)), s, FmtLocal)
       IN  IF dt.ok THEN dt ELSE datetime_from_str(0, s, FmtZulu)

\* lines 83-91, with the zone of lines 71-81
datetime_for_str(params, s) ==
  LET dt == datetime_from_str(TzOffset(TzOf(params)), s, FmtLocal)
  IN  IF dt.ok THEN dt ELSE datetime_from_str(0, s, FmtZulu)

\* Option::map(datetime_for_str)
MapDatetime(params, value) ==
  IF IsSome(value) THEN Some(datetime_for_str(params, value[1])) ELSE None

NoFieldsSeen ==
  [uid |-> None, summary |-> None, stamp |-> None,
   start |-> None, end |-> None, created |-> None]

\* A loop body that keeps the first value of a name instead of the last.
ApplyProperty_firstwins(acc, p) ==
  CASE p.name = "UID" /\ acc.uid = None -> [acc EXCEPT !.uid = p.value]
    [] p.name = "SUMMARY" /\ acc.summary = None -> [acc EXCEPT !.summary = p.value]
    [] p.name = "DTSTAMP" /\ acc.stamp = None ->
         [acc EXCEPT !.stamp = MapDatetime(p.params, p.value)]
    [] p.name = "DTSTART" /\ acc.start = None ->
         [acc EXCEPT !.start = MapDatetime(p.params, p.value)]
    [] p.name = "DTEND" /\ acc.end = None ->
         [acc EXCEPT !.end = MapDatetime(p.params, p.value)]
    [] p.name = "CREATED" /\ acc.created = None ->
         [acc EXCEPT !.created = MapDatetime(p.params, p.value)]
    [] OTHER -> acc

\* lines 70-102: the body of the loop over an event's properties
ApplyProperty(acc, p) ==
  CASE p.name = "UID" -> [acc EXCEPT !.uid = p.value]
    [] p.name = "SUMMARY" -> [acc EXCEPT !.summary = p.value]
    [] p.name = "DTSTAMP" -> [acc EXCEPT !.stamp = MapDatetime(p.params, p.value)]
    [] p.name = "DTSTART" -> [acc EXCEPT !.start = MapDatetime(p.params, p.value)]
    [] p.name = "DTEND" -> [acc EXCEPT !.end = MapDatetime(p.params, p.value)]
    [] p.name = "CREATED" -> [acc EXCEPT !.created = MapDatetime(p.params, p.value)]
    [] OTHER -> acc

(***************************************************************************)
(* main.rs, compute_events lines 104-121: Result<Option<Event>>.  An error *)
(* records the line of the `?` that returned it.                           *)
(***************************************************************************)
NoEvent ==
  [uid |-> <<>>, summary |-> <<>>, stamp |-> 0,
   created |-> None, start |-> None, end |-> None]

OkNone == [kind |-> "None", ev |-> NoEvent, line |-> 0]
OkEvent(e) == [kind |-> "Event", ev |-> e, line |-> 0]
ErrAt(line) == [kind |-> "Err", ev |-> NoEvent, line |-> line]

\* Option<Result<T>>::transpose()?, as an Option<T>; only used when no Err.
Transposed(o) == IF IsSome(o) THEN Some(o[1].v) ELSE None
IsErr(o) == IsSome(o) /\ ~o[1].ok

Accepts(filters, summary) ==
  \A i \in 1..Len(filters) : Filter_matches(filters[i], summary)

\* An accepted branch that does not propagate a failed DTSTART.
BuildEvent_skipstart(acc) ==
  CASE IsErr(acc.stamp) -> ErrAt(111)
    [] IsErr(acc.end) -> ErrAt(113)
    [] IsErr(acc.created) -> ErrAt(114)
    [] OTHER -> OkEvent([uid |-> acc.uid[1], summary |-> acc.summary[1],
                         stamp |-> acc.stamp[1].v,
                         start |-> Transposed(acc.start),
                         end |-> Transposed(acc.end),
                         created |-> Transposed(acc.created)])

\* The accepted branch, lines 108-115.
BuildEvent(acc) ==
  CASE IsErr(acc.stamp) -> ErrAt(111)
    [] IsErr(acc.start) -> ErrAt(112)
    [] IsErr(acc.end) -> ErrAt(113)
    [] IsErr(acc.created) -> ErrAt(114)
    [] OTHER -> OkEvent([uid |-> acc.uid[1], summary |-> acc.summary[1],
                         stamp |-> acc.stamp[1].v,
                         start |-> Transposed(acc.start),
                         end |-> Transposed(acc.end),
                         created |-> Transposed(acc.created)])

\* A tail that treats a filter list as a disjunction.
FinishEvent_any(acc, filters) ==
  IF IsSome(acc.uid) /\ IsSome(acc.summary) /\ IsSome(acc.stamp)
  THEN IF \E i \in 1..Len(filters) : Filter_matches(filters[i], acc.summary[1])
       THEN BuildEvent(acc)
       ELSE OkNone
  ELSE OkNone

\* A tail that unwraps the timestamps before it looks at anything else.
FinishEvent_eager(acc, filters) ==
  CASE IsErr(acc.stamp) -> ErrAt(111)
    [] IsErr(acc.start) -> ErrAt(112)
    [] IsErr(acc.end) -> ErrAt(113)
    [] IsErr(acc.created) -> ErrAt(114)
    [] OTHER ->
         IF IsSome(acc.uid) /\ IsSome(acc.summary) /\ IsSome(acc.stamp)
         THEN IF Accepts(filters, acc.summary[1]) THEN BuildEvent(acc) ELSE OkNone
         ELSE OkNone

FinishEvent(acc, filters) ==
  IF IsSome(acc.uid) /\ IsSome(acc.summary) /\ IsSome(acc.stamp)
  THEN IF Accepts(filters, acc.summary[1]) THEN BuildEvent(acc) ELSE OkNone
  ELSE OkNone

RECURSIVE FoldProperties(_, _)
FoldProperties(acc, props) ==
  IF props = <<>> THEN acc
  ELSE FoldProperties(ApplyProperty(acc, Head(props)), Tail(props))

\* lines 63-122: the closure mapped over a calendar's events
ExtractEvent(props, filters) ==
  FinishEvent(FoldProperties(NoFieldsSeen, props), filters)

(***************************************************************************)
(* Inputs.                                                                 *)
(***************************************************************************)
ContentAlphabet == {"a", "b", ":", ".", "("}
CandAlphabet == {"a", "b"}
Contents == SeqsUpTo(ContentAlphabet, MaxContent)
Candidates == SeqsUpTo(CandAlphabet, MaxCand)
OpWords ==
  {OpEquals, OpStartsWith, OpEndsWith, OpContains, OpTrue, OpRegex, <<"f", "o", "o">>}

\* [!]operator:content, and [!]operator without a colon
FilterSpecs ==
  {pre \o op \o <<":">> \o c : pre \in {<<>>, <<"!">>}, op \in OpWords, c \in Contents}
    \cup {pre \o op : pre \in {<<>>, <<"!">>}, op \in OpWords}

\* Timestamp values: UTC literals, bare local times, short fields, values
\* out of range, and text that is no timestamp.
\* "19700101T000000Z"
EpochZulu ==
  <<"1", "9", "7", "0", "0", "1", "0", "1", "T", "0", "0", "0", "0", "0", "0", "Z">>
\* "19700101T000000"
EpochBare ==
  <<"1", "9", "7", "0", "0", "1", "0", "1", "T", "0", "0", "0", "0", "0", "0">>
\* "19700102T030405Z"
LaterZulu ==
  <<"1", "9", "7", "0", "0", "1", "0", "2", "T", "0", "3", "0", "4", "0", "5", "Z">>
\* "1970011T00000Z"
ShortZulu ==
  <<"1", "9", "7", "0", "0", "1", "1", "T", "0", "0", "0", "0", "0", "Z">>
\* "19701301T000000Z"
Month13Zulu ==
  <<"1", "9", "7", "0", "1", "3", "0", "1", "T", "0", "0", "0", "0", "0", "0", "Z">>
\* "x"
NoTimestamp ==
  <<"x">>
\* "19700230T000000"
Feb30Bare ==
  <<"1", "9", "7", "0", "0", "2", "3", "0", "T", "0", "0", "0", "0", "0", "0">>
\* "19700101"
DateOnly ==
  <<"1", "9", "7", "0", "0", "1", "0", "1">>
\* ""
EmptyValue ==
  <<>>
\* "19700101T000000ZZ"
TwoZulu ==
  <<"1", "9", "7", "0", "0", "1", "0", "1", "T", "0", "0", "0", "0", "0", "0", "Z", "Z">>

Values ==
  {EpochZulu, EpochBare, LaterZulu, ShortZulu, Month13Zulu,
   NoTimestamp, Feb30Bare, DateOnly, EmptyValue, TwoZulu}

ZoneParams ==
  {Param("TZID", <<"America/New_York">>),
   Param("TZID", <<"Europe/Amsterdam">>),
   Param("TZID", <<"America/New_York", "Europe/Amsterdam">>),
   Param("TZID", <<"Nowhere/Void">>),
   Param("TZID", <<>>),
   Param("X-TZ", <<"America/New_York">>)}

ParamLists == {None} \cup {Some(ps) : ps \in SeqsUpTo(ZoneParams, MaxParams)}

\* The filters of a request: parsed specs.
\* "contains:b" and "!equals:ab"
RawContainsB ==
  <<"c", "o", "n", "t", "a", "i", "n", "s", ":", "b">>
RawNotEqualsAB ==
  <<"!", "e", "q", "u", "a", "l", "s", ":", "a", "b">>
RawFilterPool == {RawContainsB, RawNotEqualsAB}
FilterPool == {Filter_parse(s) : s \in RawFilterPool}
FilterLists == SeqsUpTo(FilterPool, MaxFilters)

NewYork == Some(<<Param("TZID", <<"America/New_York">>)>>)
Nowhere == Some(<<Param("TZID", <<"Nowhere/Void">>)>>)

\* The properties an event is made of.
PropertyPool ==
  {Property("UID", Some(<<"u">>), None),
   Property("SUMMARY", Some(<<"a">>), None),
   Property("SUMMARY", Some(<<"a", "b">>), None),
   Property("DTSTAMP", Some(EpochBare), NewYork),
   Property("DTSTAMP", Some(NoTimestamp), NewYork),
   Property("DTSTART", Some(Feb30Bare), None),
   Property("X-ZONE", Some(EpochZulu), NewYork)}

\* The events a calendar block is made of: one the filter "contains:b"
\* accepts, one it rejects, one without UID, one without DTSTAMP, one whose
\* DTSTAMP is malformed.
EvStandup ==
  <<Property("UID", Some(<<"u">>), None),
    Property("SUMMARY", Some(<<"a", "b">>), None),
    Property("DTSTAMP", Some(EpochZulu), None),
    Property("DTSTART", Some(EpochBare), NewYork),
    Property("DTEND", Some(LaterZulu), Nowhere)>>
EvOther ==
  <<Property("UID", Some(<<"v">>), None),
    Property("SUMMARY", Some(<<"a">>), None),
    Property("DTSTAMP", Some(EpochZulu), None)>>
EvNoUid ==
  <<Property("SUMMARY", Some(<<"a", "b">>), None),
    Property("DTSTAMP", Some(NoTimestamp), None),
    Property("DTSTART", Some(Feb30Bare), None)>>
EvNoStamp ==
  <<Property("UID", Some(<<"w">>), None),
    Property("SUMMARY", Some(<<"a", "b">>), None),
    Property("CREATED", Some(NoTimestamp), None)>>
EvBadStamp ==
  <<Property("UID", Some(<<"x">>), None),
    Property("SUMMARY", Some(<<"a", "b">>), None),
    Property("DTSTAMP", Some(Month13Zulu), None)>>
EventPool == {EvStandup, EvOther, EvNoUid, EvNoStamp, EvBadStamp}

\* One block of the feed: a calendar with its events, or a parser error.
Calendar(events) == [err |-> FALSE, events |-> events]
BrokenBlock == [err |-> TRUE, events |-> <<>>]
BlockSize(b) == 1 + Len(b.events)

\* The feeds of at most n blocks and events together.
RECURSIVE Feeds(_)
Feeds(n) ==
  IF n = 0 THEN {<<>>}
  ELSE LET blocks ==
             {BrokenBlock} \cup {Calendar(es) : es \in SeqsUpTo(EventPool, n - 1)}
       IN  {<<>>} \cup
           UNION {{<<b>> \o rest : rest \in Feeds(n - BlockSize(b))} : b \in blocks}

\* "foo:a", "ab" and "regex:("
RawUnknownOp ==
  <<"f", "o", "o", ":", "a">>
RawNoColon ==
  <<"a", "b">>
RawBadRegex ==
  <<"r", "e", "g", "e", "x", ":", "(">>
RawSpecPool == RawFilterPool \cup {RawUnknownOp, RawNoColon, RawBadRegex}

\* The events get_ical converts.
IcalEventPool ==
  [uid : {<<"u">>}, summary : {<<"a">>}, stamp : {0, 97445},
   created : {None, Some(0)},
   start : {None, Some(0), Some(18000)},
   end : {None, Some(18000), Some(97445)}]

(***************************************************************************)
(* State.                                                                  *)
(***************************************************************************)
VARIABLES
  \* filter.rs: a spec, its parse, the parse of its inversion, a candidate
  fspec, cand, plain, inverted, mplain, minverted, fpc,
  \* main.rs, datetime_for_str: a value, its property's params, the result
  rvalue, rparams, rresult, rpc,
  \* main.rs, the closure over one event: the filters, the properties read
  \* so far, the six locals, the closure's result
  efilters, eprops, eacc, eresult, epc,
  \* main.rs, compute_events and collect_events: the request's filters, the
  \* calendar blocks of the fetched body, the number of blocks pulled, the
  \* events left in the block being read, the items yielded so far
  pfilters, feed, pos, cur, emitted, ppc,
  \* main.rs, a request: the filter parameters of the query string, how many
  \* were deserialized, the fetches made, the events extracted, the response
  qraw, nparse, nfetch, nextract, response,
  \* main.rs, get_ical: the collected events, the VEVENTs added so far
  ievents, ical

fvars == <<fspec, cand, plain, inverted, mplain, minverted, fpc>>
rvars == <<rvalue, rparams, rresult, rpc>>
evars == <<efilters, eprops, eacc, eresult, epc>>
pvars == <<pfilters, feed, pos, cur, emitted, ppc>>
qvars == <<qraw, nparse, nfetch, nextract, response>>
ivars == <<ievents, ical>>
vars == <<fvars, rvars, evars, pvars, qvars, ivars>>

NoFilter == FilterErr("")

FilterIdle ==
  /\ fspec = <<>> /\ cand = <<>> /\ plain = NoFilter /\ inverted = NoFilter
  /\ mplain = FALSE /\ minverted = FALSE /\ fpc = "idle"
ResolveIdle ==
  /\ rvalue = <<>> /\ rparams = None /\ rresult = RErr /\ rpc = "idle"
ExtractIdle ==
  /\ efilters = <<>> /\ eprops = <<>> /\ eacc = NoFieldsSeen
  /\ eresult = OkNone /\ epc = "idle"
Closed == [open |-> FALSE, events |-> <<>>]
PipelineIdle ==
  /\ pfilters = <<>> /\ feed = <<>> /\ pos = 0 /\ cur = Closed
  /\ emitted = <<>> /\ ppc = "idle"
RequestIdle ==
  /\ qraw = <<>> /\ nparse = 0 /\ nfetch = 0 /\ nextract = 0 /\ response = "none"
IcalIdle ==
  /\ ievents = <<>> /\ ical = <<>>

(***************************************************************************)
(* The filter engine: Filter::parse on a spec and on its inversion, then   *)
(* Filter::matches of both on one candidate (as test_load_filter does).    *)
(***************************************************************************)
FilterInit ==
  /\ fspec \in FilterSpecs
  /\ cand \in Candidates
  /\ plain = NoFilter /\ inverted = NoFilter
  /\ mplain = FALSE /\ minverted = FALSE
  /\ fpc = "start"
  /\ ResolveIdle /\ ExtractIdle /\ PipelineIdle /\ RequestIdle /\ IcalIdle

ParsePlain ==
  /\ fpc = "start"
  /\ plain' = Filter_parse(fspec)
  /\ fpc' = "parsed"
  /\ UNCHANGED <<fspec, cand, inverted, mplain, minverted, rvars, evars, pvars, qvars, ivars>>

ParseInverted ==
  /\ fpc = "parsed"
  /\ inverted' = Filter_parse(<<"!">> \o fspec)
  /\ fpc' = "both"
  /\ UNCHANGED <<fspec, cand, plain, mplain, minverted, rvars, evars, pvars, qvars, ivars>>

Match ==
  /\ fpc = "both"
  /\ plain.ok /\ inverted.ok
  /\ mplain' = Filter_matches(plain, cand)
  /\ minverted' = Filter_matches(inverted, cand)
  /\ fpc' = "done"
  /\ UNCHANGED <<fspec, cand, plain, inverted, rvars, evars, pvars, qvars, ivars>>

FilterNext == ParsePlain \/ ParseInverted \/ Match

SpecFilter == FilterInit /\ [][FilterNext]_vars

(***************************************************************************)
(* The normaliser: datetime_for_str on one property's value and params.    *)
(***************************************************************************)
ResolveInit ==
  /\ rvalue \in Values
  /\ rparams \in ParamLists
  /\ rresult = RErr
  /\ rpc = "start"
  /\ FilterIdle /\ ExtractIdle /\ PipelineIdle /\ RequestIdle /\ IcalIdle

Resolve ==
  /\ rpc = "start"
  /\ rresult' = datetime_for_str(rparams, rvalue)
  /\ rpc' = "done"
  /\ UNCHANGED <<rvalue, rparams, fvars, evars, pvars, qvars, ivars>>

ResolveNext == Resolve

SpecResolve == ResolveInit /\ [][ResolveNext]_vars

(***************************************************************************)
(* The extractor: the loop over one event's properties (one step per       *)
(* property, in the order the parser supplies them), then lines 104-121.   *)
(***************************************************************************)
ExtractInit ==
  /\ efilters \in FilterLists
  /\ eprops = <<>>
  /\ eacc = NoFieldsSeen
  /\ eresult = OkNone
  /\ epc = "loop"
  /\ FilterIdle /\ ResolveIdle /\ PipelineIdle /\ RequestIdle /\ IcalIdle

NextProperty ==
  /\ epc = "loop"
  /\ Len(eprops) < MaxProps
  /\ \E p \in PropertyPool :
       /\ eprops' = Append(eprops, p)
       /\ eacc' = ApplyProperty(eacc, p)
  /\ UNCHANGED <<efilters, eresult, epc, fvars, rvars, pvars, qvars, ivars>>

EndOfProperties ==
  /\ epc = "loop"
  /\ eresult' = FinishEvent(eacc, efilters)
  /\ epc' = "done"
  /\ UNCHANGED <<efilters, eprops, eacc, fvars, rvars, pvars, qvars, ivars>>

ExtractNext == NextProperty \/ EndOfProperties

SpecExtract == ExtractInit /\ [][ExtractNext]_vars

(***************************************************************************)
(* The pipeline: compute_events' iterator of iterators, drained by a       *)
(* consumer that pulls every item.  PullCalendar is next() on the outer    *)
(* iterator, PullEvent one event of the inner one.                         *)
(***************************************************************************)
\* A pipeline that loses a broken block instead of yielding its error.
CalendarError_dropped(out) == out

\* line 60: `c?` yields the block's error as the item
CalendarError(out) == Append(out, ErrAt(60))

\* line 123: filter_map(|x| x.transpose()) discards Ok(None)
YieldEvent(out, r) == IF r.kind = "None" THEN out ELSE Append(out, r)

PipelineInit ==
  /\ pfilters \in FilterLists
  /\ feed \in Feeds(MaxFeedSize)
  /\ pos = 0
  /\ cur = Closed
  /\ emitted = <<>>
  /\ ppc = "run"
  /\ RequestIdle /\ FilterIdle /\ ResolveIdle /\ ExtractIdle /\ IcalIdle

PullCalendar ==
  /\ ppc = "run"
  /\ ~cur.open
  /\ pos < Len(feed)
  /\ pos' = pos + 1
  /\ IF feed[pos + 1].err
     THEN /\ emitted' = CalendarError(emitted)
          /\ cur' = cur
     ELSE /\ emitted' = emitted
          /\ cur' = [open |-> TRUE, events |-> feed[pos + 1].events]
  /\ UNCHANGED <<pfilters, feed, ppc, qvars, fvars, rvars, evars, ivars>>

PullEvent ==
  /\ ppc = "run"
  /\ cur.open
  /\ cur.events # <<>>
  /\ emitted' = YieldEvent(emitted, ExtractEvent(Head(cur.events), pfilters))
  /\ cur' = [cur EXCEPT !.events = Tail(cur.events)]
  /\ UNCHANGED <<pfilters, feed, pos, ppc, qvars, fvars, rvars, evars, ivars>>

EndOfCalendar ==
  /\ ppc = "run"
  /\ cur.open
  /\ cur.events = <<>>
  /\ cur' = Closed
  /\ UNCHANGED <<pfilters, feed, pos, emitted, ppc, qvars, fvars, rvars, evars, ivars>>

EndOfFeed ==
  /\ ppc = "run"
  /\ ~cur.open
  /\ pos = Len(feed)
  /\ ppc' = "done"
  /\ UNCHANGED <<pfilters, feed, pos, cur, emitted, qvars, fvars, rvars, evars, ivars>>

PipelineNext == PullCalendar \/ PullEvent \/ EndOfCalendar \/ EndOfFeed

SpecPipeline == PipelineInit /\ [][PipelineNext]_vars

(***************************************************************************)
(* A request: the query string is deserialized (every filter parameter     *)
(* through Filter::parse) before the handler runs; the handler fetches the *)
(* feed and collect_events drains the pipeline, returning at the first     *)
(* error item.                                                             *)
(***************************************************************************)
RequestInit ==
  /\ qraw \in SeqsUpTo(RawSpecPool, MaxFilters)
  /\ nparse = 0 /\ nfetch = 0 /\ nextract = 0
  /\ response = "none"
  /\ pfilters = <<>>
  /\ feed = <<>> /\ pos = 0 /\ cur = Closed /\ emitted = <<>>
  /\ ppc = "query"
  /\ FilterIdle /\ ResolveIdle /\ ExtractIdle /\ IcalIdle

\* QsQuery<FilterParams>: the next `filter` parameter; a failure is the
\* request's response (error.rs: serde_qs::Error -> BadRequest).
DeserializeFilter ==
  /\ ppc = "query"
  /\ nparse < Len(qraw)
  /\ nparse' = nparse + 1
  /\ LET f == Filter_parse(qraw[nparse + 1])
     IN  IF f.ok
         THEN /\ pfilters' = Append(pfilters, f)
              /\ UNCHANGED <<response, ppc>>
         ELSE /\ response' = "BadRequest"
              /\ ppc' = "responded"
              /\ UNCHANGED pfilters
  /\ UNCHANGED <<qraw, nfetch, nextract, feed, pos, cur, emitted,
                 fvars, rvars, evars, ivars>>

\* get_json / get_ical are called with the deserialized parameters.
CallHandler ==
  /\ ppc = "query"
  /\ nparse = Len(qraw)
  /\ ppc' = "fetch"
  /\ UNCHANGED <<pfilters, feed, pos, cur, emitted, qvars, fvars, rvars, evars, ivars>>

\* upstream::get_calendars: the body arrives, or the transport fails.
FetchOk ==
  /\ ppc = "fetch"
  /\ nfetch' = nfetch + 1
  /\ feed' \in Feeds(MaxFeedSize)
  /\ ppc' = "collect"
  /\ UNCHANGED <<pfilters, pos, cur, emitted, qraw, nparse, nextract, response,
                 fvars, rvars, evars, ivars>>

FetchFailed ==
  /\ ppc = "fetch"
  /\ nfetch' = nfetch + 1
  /\ response' = "UpstreamFailure"
  /\ ppc' = "responded"
  /\ UNCHANGED <<pfilters, feed, pos, cur, emitted, qraw, nparse, nextract,
                 fvars, rvars, evars, ivars>>

\* collect_events, line 131-132: `for calendar in iter { ... calendar? ...`
CollectCalendar ==
  /\ ppc = "collect"
  /\ ~cur.open
  /\ pos < Len(feed)
  /\ pos' = pos + 1
  /\ IF feed[pos + 1].err
     THEN /\ response' = "Inconsistency"
          /\ ppc' = "responded"
          /\ cur' = cur
     ELSE /\ cur' = [open |-> TRUE, events |-> feed[pos + 1].events]
          /\ UNCHANGED <<response, ppc>>
  /\ UNCHANGED <<pfilters, feed, emitted, qraw, nparse, nfetch, nextract,
                 fvars, rvars, evars, ivars>>

\* collect_events, line 132-133: `for e in calendar? { res.push(e?) }`
CollectEvent ==
  /\ ppc = "collect"
  /\ cur.open
  /\ cur.events # <<>>
  /\ nextract' = nextract + 1
  /\ cur' = [cur EXCEPT !.events = Tail(cur.events)]
  /\ LET r == ExtractEvent(Head(cur.events), pfilters)
     IN  IF r.kind = "Err"
         THEN /\ response' = "Inconsistency"
              /\ ppc' = "responded"
              /\ emitted' = emitted
         ELSE /\ emitted' = YieldEvent(emitted, r)
              /\ UNCHANGED <<response, ppc>>
  /\ UNCHANGED <<pfilters, feed, pos, qraw, nparse, nfetch, fvars, rvars, evars, ivars>>

CollectEndOfCalendar ==
  /\ ppc = "collect"
  /\ cur.open
  /\ cur.events = <<>>
  /\ cur' = Closed
  /\ UNCHANGED <<pfilters, feed, pos, emitted, ppc, qvars, fvars, rvars, evars, ivars>>

\* collect_events, line 137, and the handler's Ok response
Respond ==
  /\ ppc = "collect"
  /\ ~cur.open
  /\ pos = Len(feed)
  /\ response' = "Ok"
  /\ ppc' = "responded"
  /\ UNCHANGED <<pfilters, feed, pos, cur, emitted, qraw, nparse, nfetch, nextract,
                 fvars, rvars, evars, ivars>>

RequestNext ==
  \/ DeserializeFilter \/ CallHandler \/ FetchOk \/ FetchFailed
  \/ CollectCalendar \/ CollectEvent \/ CollectEndOfCalendar \/ Respond

SpecRequest == RequestInit /\ [][RequestNext]_vars

(***************************************************************************)
(* get_ical: each collected event becomes a VEVENT of the document.        *)
(***************************************************************************)
Prop(name, value) == [name |-> name, value |-> value]

\* impl From<Event> for ics::Event, lines 32-50
FromEvent(e) ==
  LET res0 == <<Prop("UID", e.uid), Prop("DTSTAMP", instant_to_icalstr(e.stamp))>>
      res1 == Append(res0, Prop("SUMMARY", e.summary))
      res2 == IF IsSome(e.start)
              THEN Append(res1, Prop("DTSTART", instant_to_icalstr(e.start[1])))
              ELSE res1
      res3 == IF IsSome(e.start)
              THEN Append(res2, Prop("DTEND", instant_to_icalstr(e.start[1])))
              ELSE res2
      res4 == IF IsSome(e.created)
              THEN Append(res3, Prop("CREATED", instant_to_icalstr(e.created[1])))
              ELSE res3
  IN  res4

IcalInit ==
  /\ ievents \in SeqsUpTo(IcalEventPool, MaxIcal)
  /\ ical = <<>>
  /\ FilterIdle /\ ResolveIdle /\ ExtractIdle /\ PipelineIdle /\ RequestIdle

\* lines 166-168: `for e in events { calendar.add_event(e.into()) }`
AddEvent ==
  /\ Len(ical) < Len(ievents)
  /\ ical' = Append(ical, FromEvent(ievents[Len(ical) + 1]))
  /\ UNCHANGED <<ievents, fvars, rvars, evars, pvars, qvars>>

IcalNext == AddEvent

SpecIcal == IcalInit /\ [][IcalNext]_vars

(***************************************************************************)
(* Properties of the filter engine.                                        *)
(***************************************************************************)
\* C7: inversion is exact negation. For every spec op:X that parses, "!op:X"
\* parses to the same operator with invert set, and on every candidate its
\* verdict is the negation of op:X's; true:X matches every candidate and
\* !true:X none; a parsed filter has invert set exactly when its spec starts
\* with "!".
C7_InversionIsNegation ==
  /\ (fpc \in {"parsed", "both", "done"} /\ plain.ok)
       => (plain.invert <=> (Len(fspec) > 0 /\ fspec[1] = "!"))
  /\ (fpc \in {"both", "done"} /\ plain.ok /\ ~plain.invert)
       => /\ inverted.ok /\ inverted.invert
          /\ inverted.op = plain.op /\ inverted.pat = plain.pat
  /\ (fpc = "done" /\ ~plain.invert)
       => /\ minverted = ~mplain
          /\ plain.op = "True" => (mplain /\ ~minverted)

C7_Witness ==
  /\ fpc = "done"
  /\ ~plain.invert /\ inverted.invert
  /\ plain.op = "Contains" /\ plain.pat = <<"b">>
  /\ cand = <<"a", "b">>
  /\ mplain /\ ~minverted

(***************************************************************************)
(* Properties of the normaliser.                                           *)
(***************************************************************************)
UsableZone(p) ==
  p.name = "TZID" /\ Len(p.values) = 1 /\ p.values[1] \in KnownZones

NoUsableZone(params) ==
  ~IsSome(params) \/ \A i \in 1..Len(params[1]) : ~UsableZone(params[1][i])

HasForm(value, fmt) == datetime_from_str(0, value, fmt).ok

\* C2 as stated: without a usable zone the result is exactly that of parsing
\* the value as the UTC literal YYYYMMDDTHHMMSSZ, so an error for every value
\* that has not that form.
C2_OnlyZuluWithoutZone ==
  (rpc = "done" /\ NoUsableZone(rparams))
    => rresult = datetime_from_str(0, rvalue, FmtZulu)

\* C2, amended: without a usable zone the result does not depend on the
\* params; it is the instant of the value read as a UTC time when the value
\* has the form YYYYMMDDTHHMMSS (no suffix), else the instant of the UTC
\* literal when it has the form YYYYMMDDTHHMMSSZ, else an error. A zone
\* identifier that does not resolve is never an error by itself.
C2_UtcWithoutZone ==
  (rpc = "done" /\ NoUsableZone(rparams))
    => /\ rresult.ok <=> (HasForm(rvalue, FmtLocal) \/ HasForm(rvalue, FmtZulu))
       /\ HasForm(rvalue, FmtLocal) => rresult = datetime_from_str(0, rvalue, FmtLocal)
       /\ HasForm(rvalue, FmtZulu) => rresult = datetime_from_str(0, rvalue, FmtZulu)
       /\ rvalue \in {EpochZulu, EpochBare, ShortZulu} => rresult = ROk(0)
       /\ rvalue = LaterZulu => rresult = ROk(97445)

C2_Witness ==
  /\ rpc = "done"
  /\ rparams = Nowhere
  /\ rvalue = EpochBare
  /\ rresult = ROk(0)

(***************************************************************************)
(* Properties of the extractor.                                            *)
(***************************************************************************)
\* The index of the last property called `name`, 0 when there is none.
LastIndex(props, name) ==
  IF \E i \in 1..Len(props) : props[i].name = name
  THEN CHOOSE i \in 1..Len(props) :
         /\ props[i].name = name
         /\ \A j \in (i + 1)..Len(props) : props[j].name # name
  ELSE 0

LastValue(props, name) ==
  IF LastIndex(props, name) = 0 THEN None
  ELSE props[LastIndex(props, name)].value

\* The last occurrence's value, normalised with that occurrence's params.
LastInstant(props, name) ==
  LET i == LastIndex(props, name)
  IN  IF i = 0 \/ ~IsSome(props[i].value) THEN None
      ELSE Some(datetime_for_str(props[i].params, props[i].value[1]))

FieldsFromLast(props) ==
  [uid |-> LastValue(props, "UID"),
   summary |-> LastValue(props, "SUMMARY"),
   stamp |-> LastInstant(props, "DTSTAMP"),
   start |-> LastInstant(props, "DTSTART"),
   end |-> LastInstant(props, "DTEND"),
   created |-> LastInstant(props, "CREATED")]

\* Fails the zone-qualified parse and the Z-suffixed parse.
Malformed(params, value) ==
  /\ ~datetime_from_str(TzOffset(TzOf(params)), value, FmtLocal).ok
  /\ ~datetime_from_str(0, value, FmtZulu).ok

HasMalformed(props, name) ==
  \E i \in 1..Len(props) :
    /\ props[i].name = name
    /\ IsSome(props[i].value)
    /\ Malformed(props[i].params, props[i].value[1])

LastIsMalformed(props, name) ==
  LET i == LastIndex(props, name)
  IN  /\ i > 0
      /\ IsSome(props[i].value)
      /\ Malformed(props[i].params, props[i].value[1])

AllMatch(filters, summary) ==
  \A i \in 1..Len(filters) : Filter_matches(filters[i], summary)

\* C1 as stated: an event that carries a malformed DTSTAMP yields an error,
\* whatever its other properties and whatever the filters.
C1_MalformedStampAlwaysError ==
  (epc = "done" /\ HasMalformed(eprops, "DTSTAMP")) => eresult.kind = "Err"

\* C1, amended: an event whose last DTSTAMP is malformed yields an error
\* exactly when it also has a UID and a SUMMARY and every filter matches the
\* summary; otherwise it is dropped (None). It never yields an event.
C1_MalformedStampErrorIfAccepted ==
  (epc = "done" /\ LastIsMalformed(eprops, "DTSTAMP"))
    => /\ eresult.kind \in {"Err", "None"}
       /\ eresult.kind = "Err"
            <=> /\ IsSome(LastValue(eprops, "UID"))
                /\ IsSome(LastValue(eprops, "SUMMARY"))
                /\ AllMatch(efilters, LastValue(eprops, "SUMMARY")[1])

C1_Witness ==
  /\ epc = "done"
  /\ LastIsMalformed(eprops, "DTSTAMP")
  /\ Len(efilters) > 0
  /\ eresult = ErrAt(111)

\* C6: an event with uid, summary and stamp passes the filter stage (its
\* result is not None) exactly when every filter of the list matches its
\* summary; with the empty list it always passes.
C6_ConjunctionOnSummary ==
  (epc = "done" /\ IsSome(eacc.uid) /\ IsSome(eacc.summary) /\ IsSome(eacc.stamp))
    => /\ eresult.kind # "None" <=> AllMatch(efilters, eacc.summary[1])
       /\ efilters = <<>> => eresult.kind # "None"

C6_Witness ==
  /\ epc = "done"
  /\ IsSome(eacc.uid) /\ IsSome(eacc.summary) /\ IsSome(eacc.stamp)
  /\ Len(efilters) = 2
  /\ Filter_matches(efilters[1], eacc.summary[1])
  /\ ~Filter_matches(efilters[2], eacc.summary[1])
  /\ eresult = OkNone

\* C9: last write wins. The six locals always hold what the last occurrence
\* of each recognized name gives (its value; for a timestamp, its value
\* normalised with its own params), and the result is the one those give.
C9_LastWriteWins ==
  LET last == FieldsFromLast(eprops)
  IN  /\ epc \in {"loop", "done"} => eacc = last
      /\ epc = "done" => eresult = FinishEvent(last, efilters)

C9_Witness ==
  /\ epc = "done"
  /\ \E i, j \in 1..Len(eprops) :
       /\ i < j
       /\ eprops[i].name = "DTSTAMP" /\ eprops[j].name = "DTSTAMP"
       /\ Malformed(eprops[i].params, eprops[i].value[1])
       /\ ~Malformed(eprops[j].params, eprops[j].value[1])
  /\ eresult.kind = "Event"
  /\ eresult.ev.stamp = 18000

OptionalFailed(acc) == IsErr(acc.start) \/ IsErr(acc.end) \/ IsErr(acc.created)

FirstFailedLine(acc) ==
  CASE IsErr(acc.start) -> 112
    [] IsErr(acc.end) -> 113
    [] IsErr(acc.created) -> 114
    [] OTHER -> 0

RECURSIVE ExpectedOfEvents(_, _)
ExpectedOfEvents(events, filters) ==
  IF events = <<>> THEN <<>>
  ELSE LET r == ExtractEvent(Head(events), filters)
           rest == ExpectedOfEvents(Tail(events), filters)
       IN  IF r.kind = "None" THEN rest ELSE <<r>> \o rest

\* What a feed must yield: per block, in order, one error for a broken block,
\* else the events and errors of the calendar's events.
RECURSIVE ExpectedOfFeed(_, _)
ExpectedOfFeed(blocks, filters) ==
  IF blocks = <<>> THEN <<>>
  ELSE (IF Head(blocks).err THEN <<ErrAt(60)>>
        ELSE ExpectedOfEvents(Head(blocks).events, filters))
         \o ExpectedOfFeed(Tail(blocks), filters)

IsPrefix(s, u) == Len(s) <= Len(u) /\ SubSeq(u, 1, Len(s)) = s

\* C4: the pipeline yields, block by block in source order, one error item
\* for a broken block and otherwise the accepted events and per-event errors
\* of the calendar in event order; what it has yielded is at every moment a
\* prefix of that, and it ends only when every block has been read: an error
\* item does not stop it.
C4_OrderPreservingAndResilient ==
  LET expected == ExpectedOfFeed(feed, pfilters)
  IN  /\ ppc = "run" => IsPrefix(emitted, expected)
      /\ ppc = "done"
            => /\ emitted = expected
               /\ pos = Len(feed)
               /\ Len(emitted) >= Cardinality({i \in 1..Len(feed) : feed[i].err})

C4_Witness ==
  /\ ppc = "done"
  /\ pfilters = <<Filter_parse(RawContainsB)>>
  /\ feed = <<BrokenBlock, Calendar(<<EvStandup>>)>>
  /\ Len(emitted) = 2
  /\ emitted[1].kind = "Err"
  /\ emitted[2].kind = "Event" /\ emitted[2].ev.summary = <<"a", "b">>

\* UID, SUMMARY or DTSTAMP never occurs among the event's properties.
Incomplete(event) ==
  \E name \in {"UID", "SUMMARY", "DTSTAMP"} :
    \A i \in 1..Len(event) : event[i].name # name

RECURSIVE CompleteOnly(_)
CompleteOnly(events) ==
  IF events = <<>> THEN <<>>
  ELSE IF Incomplete(Head(events)) THEN CompleteOnly(Tail(events))
  ELSE <<Head(events)>> \o CompleteOnly(Tail(events))

RECURSIVE WithoutIncomplete(_)
WithoutIncomplete(blocks) ==
  IF blocks = <<>> THEN <<>>
  ELSE <<[Head(blocks) EXCEPT !.events = CompleteOnly(Head(blocks).events)]>>
         \o WithoutIncomplete(Tail(blocks))

\* C5: an event in which UID, SUMMARY or DTSTAMP never occurs yields no item,
\* neither an event nor an error, whatever its other properties and the
\* filters: the pipeline yields what it yields for the feed without these
\* events.
C5_IncompleteEventsDropped ==
  LET expected == ExpectedOfFeed(WithoutIncomplete(feed), pfilters)
  IN  /\ ppc = "run" => IsPrefix(emitted, expected)
      /\ ppc = "done" => emitted = expected

C5_Witness ==
  /\ ppc = "done"
  /\ pfilters = <<>>
  /\ feed = <<Calendar(<<EvNoUid, EvStandup>>)>>
  /\ emitted = <<ExtractEvent(EvStandup, <<>>)>>
  /\ emitted[1].kind = "Event" /\ emitted[1].ev.uid = <<"u">>

(***************************************************************************)
(* Properties of a request.                                                *)
(***************************************************************************)
\* The filter grammar: ["!"] operator ":" content, the operator one of the
\* six, a regex content that compiles.
WellFormedSpec(spec) ==
  LET s == IF Len(spec) > 0 /\ spec[1] = "!" THEN Tail(spec) ELSE spec
  IN  \E k \in 1..Len(s) :
        /\ s[k] = ":"
        /\ \A j \in 1..(k - 1) : s[j] # ":"
        /\ SubSeq(s, 1, k - 1) \in
             {OpEquals, OpStartsWith, OpEndsWith, OpContains, OpTrue, OpRegex}
        /\ SubSeq(s, 1, k - 1) = OpRegex
             => \A j \in (k + 1)..Len(s) : s[j] # "("

FirstMalformed(specs) ==
  CHOOSE i \in 1..Len(specs) :
    /\ ~WellFormedSpec(specs[i])
    /\ \A j \in 1..(i - 1) : WellFormedSpec(specs[j])

\* C8: a request with a filter spec that does not parse ends as BadRequest,
\* with no fetch and no event extraction at any moment, and the failing spec
\* is parsed once (the first malformed spec ends the request); BadRequest
\* comes from nothing else.
C8_BadFilterBeforeFetch ==
  LET bad == \E i \in 1..Len(qraw) : ~WellFormedSpec(qraw[i])
  IN  ppc \in {"query", "fetch", "collect", "responded"}
        => /\ nparse <= Len(qraw)
           /\ bad => /\ nfetch = 0 /\ nextract = 0
                     /\ ppc \in {"query", "responded"}
                     /\ nparse <= FirstMalformed(qraw)
           /\ (bad /\ ppc = "responded")
                => (response = "BadRequest" /\ nparse = FirstMalformed(qraw))
           /\ response = "BadRequest" => bad
           /\ (~bad /\ ppc = "responded") => nfetch = 1

C8_Witness ==
  /\ ppc = "responded"
  /\ qraw = <<RawContainsB, RawUnknownOp>>
  /\ nparse = 2
  /\ response = "BadRequest"
  /\ nfetch = 0 /\ nextract = 0

(***************************************************************************)
(* Properties of the calendar document.                                    *)
(***************************************************************************)
\* The values of the properties called `name` of a VEVENT, in order.
RECURSIVE ValuesOf(_, _)
ValuesOf(vevent, name) ==
  IF vevent = <<>> THEN <<>>
  ELSE (IF Head(vevent).name = name THEN <<Head(vevent).value>> ELSE <<>>)
         \o ValuesOf(Tail(vevent), name)

Rendered(o) == IF IsSome(o) THEN <<instant_to_icalstr(o[1])>> ELSE <<>>

\* C3: the VEVENT built from an event carries DTSTART, DTEND and CREATED
\* independently: each is present exactly when the event has that instant,
\* with that instant rendered as YYYYMMDDTHHMMSSZ; DTSTAMP renders the stamp.
C3_IndependentTimestamps ==
  \A i \in 1..Len(ical) :
    /\ ValuesOf(ical[i], "DTSTAMP") = <<instant_to_icalstr(ievents[i].stamp)>>
    /\ ValuesOf(ical[i], "DTSTART") = Rendered(ievents[i].start)
    /\ ValuesOf(ical[i], "DTEND") = Rendered(ievents[i].end)
    /\ ValuesOf(ical[i], "CREATED") = Rendered(ievents[i].created)

=============================================================================
